---- MODULE Spec2Model ----
(***************************************************************************)
(* Model of scripts/extract_pptx_data.py: one run of main() walks the      *)
(* slides of a presentation, collects the text and geometry of every       *)
(* text-bearing shape and the speaker notes, and writes one JSON document. *)
(*                                                                         *)
(* A string is a sequence of one-character strings.  An attribute of a     *)
(* library object is a record [k, v]: k = "val" (the access returns v),    *)
(* "none" (it returns None), "absent" (the attribute does not exist, the   *)
(* access raises AttributeError) or "raise" (the access raises another     *)
(* exception).                                                             *)
(***************************************************************************)
EXTENDS Integers, Sequences, FiniteSets, TLC

\* ------------------------------------------------------------------ bounds
MaxLen == 3
MaxSlides == 2
MaxShapes == 2
MaxRuns == 2

\* -------------------------------------------------------------- characters
SP == " "
LF == "\n"
CR == "\r"
TAB == "\t"

\* the characters str.strip() removes (those the model's texts can hold)
Whitespace == {SP, LF, CR, TAB}

\* the characters str.splitlines() breaks a line at
LineBreaks == {LF, CR}

Alphabet == {"a", SP, LF, CR}

\* ----------------------------------------------------------- str methods
RECURSIVE LStrip(_)
LStrip(s) ==
  IF s = <<>> THEN <<>>
  ELSE IF Head(s) \in Whitespace THEN LStrip(Tail(s))
  ELSE s

RECURSIVE RStrip(_)
RStrip(s) ==
  IF s = <<>> THEN <<>>
  ELSE IF s[Len(s)] \in Whitespace THEN RStrip(SubSeq(s, 1, Len(s) - 1))
  ELSE s

\* str.strip()
Strip(s) == RStrip(LStrip(s))

\* str.replace("\n", " ")
ReplaceNewlines(s) == [i \in 1..Len(s) |-> IF s[i] = LF THEN SP ELSE s[i]]

\* str.splitlines(): "\r\n" is one line boundary, and a boundary at the very
\* end of the string opens no further line.  cur is the line being read.
RECURSIVE SplitFrom(_, _)
SplitFrom(s, cur) ==
  IF s = <<>> THEN (IF cur = <<>> THEN <<>> ELSE <<cur>>)
  ELSE IF Head(s) = CR /\ Len(s) >= 2 /\ s[2] = LF
    THEN <<cur>> \o SplitFrom(Tail(Tail(s)), <<>>)
  ELSE IF Head(s) \in LineBreaks THEN <<cur>> \o SplitFrom(Tail(s), <<>>)
  ELSE SplitFrom(Tail(s), Append(cur, Head(s)))

SplitLines(s) == SplitFrom(s, <<>>)

\* the normalisation with the newline replacement left out
NormalizeMut(text) == Strip(text)

\* line 40: text.replace("\n", " ").strip()
Normalize(text) == Strip(ReplaceNewlines(text))

\* line 53: [line.strip() for line in notes_text.splitlines() if line.strip()]
RECURSIVE StripNonEmpty(_)
StripNonEmpty(lines) ==
  IF lines = <<>> THEN <<>>
  ELSE IF Strip(Head(lines)) # <<>>
    THEN <<Strip(Head(lines))>> \o StripNonEmpty(Tail(lines))
  ELSE StripNonEmpty(Tail(lines))

\* the split with the blank lines kept
NotesLinesMut(notes_text) ==
  IF notes_text # <<>>
    THEN [i \in 1..Len(SplitLines(notes_text)) |->
            Strip(SplitLines(notes_text)[i])]
    ELSE <<>>

NotesLines(notes_text) ==
  IF notes_text # <<>> THEN StripNonEmpty(SplitLines(notes_text)) ELSE <<>>

\* ------------------------------------------------- library object attributes
Val(v) == [k |-> "val", v |-> v]
None == [k |-> "none"]
Absent == [k |-> "absent"]
Raise == [k |-> "raise"]

\* the result of evaluating an expression: a value, or an exception raised
Ok(v) == [raised |-> FALSE, v |-> v]
Raised == [raised |-> TRUE]

\* bool(x) for a flag that was read without an exception
Truthy(a) == a.k = "val" /\ a.v = TRUE

\* the read without "or 0": int(None) raises
CoalesceMut(a) ==
  IF a.k \in {"raise", "none"} THEN Raised
  ELSE IF a.k = "val" THEN Ok(a.v)
  ELSE Ok(0)

\* lines 45-48 and 66-67: int(getattr(obj, name, 0) or 0)
Coalesce(a) ==
  IF a.k = "raise" THEN Raised
  ELSE IF a.k = "val" /\ a.v # 0 THEN Ok(a.v)
  ELSE Ok(0)

\* the capability check with its exception swallowed
HasTextFrameMut(shape) ==
  LET a == shape.has_text_frame IN
  IF a.k = "val" THEN Ok(a.v) ELSE Ok(FALSE)

\* line 37: getattr(shape, "has_text_frame", False) and shape.has_text_frame
HasTextFrame(shape) ==
  LET a == shape.has_text_frame IN
  IF a.k = "raise" THEN Raised
  ELSE IF a.k = "val" THEN Ok(a.v)
  ELSE Ok(FALSE)

\* the text read without the trim
ShapeTextMut(shape) ==
  LET a == shape.text IN
  IF a.k \in {"raise", "absent"} THEN Raised
  ELSE IF a.k = "val" THEN Ok(a.v)
  ELSE Ok(<<>>)

\* line 38: (shape.text or "").strip()
ShapeText(shape) ==
  LET a == shape.text IN
  IF a.k \in {"raise", "absent"} THEN Raised
  ELSE IF a.k = "val" THEN Ok(Strip(a.v))
  ELSE Ok(<<>>)

\* the dict built with the trimmed text instead of the normalized one
ShapeRecordMut(shape, normalized) ==
  LET l == Coalesce(shape.left)
      t == Coalesce(shape.top)
      w == Coalesce(shape.width)
      h == Coalesce(shape.height)
  IN IF l.raised \/ t.raised \/ w.raised \/ h.raised THEN Raised
     ELSE Ok([text |-> Strip(shape.text.v), left |-> l.v, top |-> t.v,
              width |-> w.v, height |-> h.v])

\* lines 43-49: the dict appended to text_shapes; the four geometry reads are
\* evaluated in order and the first one that raises ends the construction
ShapeRecord(shape, normalized) ==
  LET l == Coalesce(shape.left)
      t == Coalesce(shape.top)
      w == Coalesce(shape.width)
      h == Coalesce(shape.height)
  IN IF l.raised \/ t.raised \/ w.raised \/ h.raised THEN Raised
     ELSE Ok([text |-> normalized, left |-> l.v, top |-> t.v,
              width |-> w.v, height |-> h.v])

\* lines 37-50: the body of the shape loop, applied to the two lists.  An
\* exception leaves the lists as they were when it was raised: text_blocks has
\* already been appended to when a geometry read raises.
ShapeStep(shape, tb, ts) ==
  LET htf == HasTextFrame(shape) IN
  IF htf.raised THEN [raised |-> TRUE, text_blocks |-> tb, text_shapes |-> ts]
  ELSE IF ~htf.v THEN [raised |-> FALSE, text_blocks |-> tb, text_shapes |-> ts]
  ELSE
    LET text == ShapeText(shape) IN
    IF text.raised THEN [raised |-> TRUE, text_blocks |-> tb, text_shapes |-> ts]
    ELSE IF text.v = <<>>
      THEN [raised |-> FALSE, text_blocks |-> tb, text_shapes |-> ts]
    ELSE
      LET normalized == Normalize(text.v)
          rec == ShapeRecord(shape, normalized)
      IN IF rec.raised
           THEN [raised |-> TRUE, text_blocks |-> Append(tb, normalized),
                 text_shapes |-> ts]
         ELSE [raised |-> FALSE, text_blocks |-> Append(tb, normalized),
               text_shapes |-> Append(ts, rec.v)]

\* read_notes without its try/except
ReadNotesMut(slide) ==
  LET n == slide.notes IN
  IF n.has_notes_slide.k \in {"raise", "absent"} THEN Raised
  ELSE IF ~Truthy(n.has_notes_slide) THEN Ok(<<>>)
  ELSE IF n.notes_slide.k \in {"raise", "absent"} THEN Raised
  ELSE IF n.notes_slide.k = "none" THEN Ok(<<>>)
  ELSE IF n.notes_text_frame.k \in {"raise", "absent"} THEN Raised
  ELSE IF n.notes_text_frame.k = "none" THEN Ok(<<>>)
  ELSE IF n.text.k \in {"raise", "absent"} THEN Raised
  ELSE IF n.text.k = "none" THEN Ok(<<>>)
  ELSE Ok(Strip(n.text.v))

\* lines 9-18: read_notes(slide); every exception inside the try block is
\* caught (AttributeError included) and turned into ""
ReadNotes(slide) ==
  LET n == slide.notes IN
  IF n.has_notes_slide.k \in {"raise", "absent"} THEN Ok(<<>>)
  ELSE IF ~Truthy(n.has_notes_slide) THEN Ok(<<>>)
  ELSE IF n.notes_slide.k \in {"raise", "absent"} THEN Ok(<<>>)
  ELSE IF n.notes_slide.k = "none" THEN Ok(<<>>)
  ELSE IF n.notes_text_frame.k \in {"raise", "absent"} THEN Ok(<<>>)
  ELSE IF n.notes_text_frame.k = "none" THEN Ok(<<>>)
  ELSE IF n.text.k \in {"raise", "absent"} THEN Ok(<<>>)
  ELSE IF n.text.k = "none" THEN Ok(Strip(<<>>))
  ELSE Ok(Strip(n.text.v))

\* the record with a 0-based page
SlideRecordMut(idx, tb, notes, ts) ==
  [page |-> idx - 1, textBlocks |-> tb, notes |-> notes, textShapes |-> ts]

\* lines 55-62: the record appended to slides
SlideRecord(idx, tb, notes, ts) ==
  [page |-> idx, textBlocks |-> tb, notes |-> notes, textShapes |-> ts]

\* line 33: enumerate(prs.slides, start=1)
EnumStart == 1

\* lines 64-69: the payload dict
BuildPayload(prs, slides) ==
  LET w == Coalesce(prs.slide_width)
      h == Coalesce(prs.slide_height)
  IN IF w.raised \/ h.raised THEN Raised
     ELSE Ok([slideCount |-> Len(prs.slides), slideWidth |-> w.v,
              slideHeight |-> h.v, slides |-> slides])

\* ------------------------------------------------------------- json.dumps
\* line 72: json.dumps(payload, ensure_ascii=False, indent=2), as the sequence
\* of characters written (a number is one element, a key with its quotes too)
EscapeChar(c) ==
  IF c = "\"" THEN <<"\\", "\"">>
  ELSE IF c = "\\" THEN <<"\\", "\\">>
  ELSE IF c = LF THEN <<"\\", "n">>
  ELSE IF c = CR THEN <<"\\", "r">>
  ELSE IF c = TAB THEN <<"\\", "t">>
  ELSE <<c>>

RECURSIVE Escape(_)
Escape(s) == IF s = <<>> THEN <<>> ELSE EscapeChar(Head(s)) \o Escape(Tail(s))

JString(s) == <<"\"">> \o Escape(s) \o <<"\"">>

JInt(n) == <<ToString(n)>>

\* a newline and the indentation of the given nesting level (indent=2)
Indent(level) == <<LF>> \o [i \in 1..(2 * level) |-> SP]

RECURSIVE Join(_, _)
Join(items, sep) ==
  IF items = <<>> THEN <<>>
  ELSE IF Len(items) = 1 THEN Head(items)
  ELSE Head(items) \o sep \o Join(Tail(items), sep)

JArray(items, level) ==
  IF items = <<>> THEN <<"[]">>
  ELSE <<"[">> \o Indent(level + 1)
       \o Join(items, <<",">> \o Indent(level + 1))
       \o Indent(level) \o <<"]">>

\* members is a sequence of <<key, value characters>> in insertion order
JObject(members, level) ==
  <<"{">> \o Indent(level + 1)
  \o Join([i \in 1..Len(members) |->
             <<"\"" \o members[i][1] \o "\"", ":", SP>> \o members[i][2]],
          <<",">> \o Indent(level + 1))
  \o Indent(level) \o <<"}">>

JTextShape(r, level) ==
  JObject(<< <<"text", JString(r.text)>>,
             <<"left", JInt(r.left)>>,
             <<"top", JInt(r.top)>>,
             <<"width", JInt(r.width)>>,
             <<"height", JInt(r.height)>> >>, level)

JSlide(r, level) ==
  JObject(<< <<"page", JInt(r.page)>>,
             <<"textBlocks",
               JArray([i \in 1..Len(r.textBlocks) |-> JString(r.textBlocks[i])],
                      level + 1)>>,
             <<"notes",
               JArray([i \in 1..Len(r.notes) |-> JString(r.notes[i])],
                      level + 1)>>,
             <<"textShapes",
               JArray([i \in 1..Len(r.textShapes) |->
                         JTextShape(r.textShapes[i], level + 2)],
                      level + 1)>> >>, level)

Dumps(p) ==
  JObject(<< <<"slideCount", JInt(p.slideCount)>>,
             <<"slideWidth", JInt(p.slideWidth)>>,
             <<"slideHeight", JInt(p.slideHeight)>>,
             <<"slides",
               JArray([i \in 1..Len(p.slides) |-> JSlide(p.slides[i], 2)],
                      1)>> >>, 0)

\* ------------------------------------------------------------------ inputs
\* The presentation object the library hands out, as main() sees it.
Shape(htf, text, l, t, w, h) ==
  [broken |-> FALSE, has_text_frame |-> htf, text |-> text,
   left |-> l, top |-> t, width |-> w, height |-> h]

\* a shape the iteration over slide.shapes raises at
BrokenShape ==
  [broken |-> TRUE, has_text_frame |-> Absent, text |-> Absent,
   left |-> Absent, top |-> Absent, width |-> Absent, height |-> Absent]

Notes(has, ns, frame, text) ==
  [has_notes_slide |-> has, notes_slide |-> ns, notes_text_frame |-> frame,
   text |-> text]

NoNotes == Notes(Val(FALSE), Absent, Absent, Absent)

Slide(shapes, notes) == [broken |-> FALSE, shapes |-> shapes, notes |-> notes]

\* a slide the iteration over prs.slides raises at
BrokenSlide == [broken |-> TRUE, shapes |-> <<>>, notes |-> NoNotes]

Prs(slides, w, h) ==
  [valid |-> TRUE, slides |-> slides, slide_width |-> w, slide_height |-> h]

\* a file Presentation() raises on (missing, corrupt, not a presentation)
InvalidPrs ==
  [valid |-> FALSE, slides |-> <<>>, slide_width |-> Absent,
   slide_height |-> Absent]

Texts == UNION {[1..k -> Alphabet] : k \in 0..MaxLen}

\* the texts the specification names
HelloWorld == <<"H", "e", "l", "l", "o", LF, "W", "o", "r", "l", "d">>
Line1Line2 == <<"L", "i", "n", "e", "1", LF, "L", "i", "n", "e", "2">>
ABNotes == <<"A", LF, LF, "B", LF, SP, SP, LF>>

TextAttrs ==
  {Val(t) : t \in Texts \cup {HelloWorld, Line1Line2, ABNotes}}
    \cup {None, Absent, Raise}

GeomAttrs == {Val(0), Val(7), None, Absent, Raise}

TextA == Shape(Val(TRUE), Val(<<"a", LF, "b">>), Val(0), Val(0), Val(100), Val(50))
TextB == Shape(Val(TRUE), Val(<<SP, "b", CR>>), Val(5), Absent, None, Val(-3))
NoFrame == Shape(Val(FALSE), Val(<<"a">>), Val(1), Val(2), Val(3), Val(4))
Blank == Shape(Val(TRUE), Val(<<SP, LF>>), Val(1), Val(2), Val(3), Val(4))
BadGeom == Shape(Val(TRUE), Val(<<"a">>), Val(1), Raise, Val(3), Val(4))

BasicShapes == {TextA, TextB, NoFrame, Blank, BadGeom, BrokenShape}

SeqsUpTo(S, n) == UNION {[1..k -> S] : k \in 0..n}

\* the sequences of exactly n slides that hold at most budget shapes in all
RECURSIVE SlideSeqs(_, _)
SlideSeqs(n, budget) ==
  IF n = 0 THEN {<<>>}
  ELSE UNION {
         {<<s>> \o rest : rest \in SlideSeqs(n - 1, budget - Len(s.shapes))} :
           s \in {Slide(sh, NoNotes) : sh \in SeqsUpTo(BasicShapes, budget)}
                   \cup {BrokenSlide}}

\* presentations of up to MaxSlides slides and MaxShapes shapes
StructPrs ==
  {Prs(ss, Val(9), Val(7)) :
     ss \in UNION {SlideSeqs(n, MaxShapes) : n \in 0..MaxSlides}}

\* one shape, every text and every capability flag
TextPrs ==
  {Prs(<<Slide(<<Shape(htf, tx, Val(1), Val(2), Val(3), Val(4))>>, NoNotes)>>,
       Val(9), Val(7)) :
     htf \in {Val(TRUE), Val(FALSE), None, Absent, Raise}, tx \in TextAttrs}

\* one shape, every geometry
GeomPrs ==
  {Prs(<<Slide(<<Shape(Val(TRUE), Val(<<"a">>), l, t, w, h)>>, NoNotes)>>,
       Val(9), Val(7)) :
     l \in GeomAttrs, t \in GeomAttrs, w \in GeomAttrs, h \in GeomAttrs}

NotesSet ==
  {Notes(has, Val(TRUE), Val(TRUE), Val(<<"a">>)) :
     has \in {Val(FALSE), None, Absent, Raise}}
  \cup {Notes(Val(TRUE), ns, Val(TRUE), Val(<<"a">>)) :
          ns \in {None, Absent, Raise}}
  \cup {Notes(Val(TRUE), Val(TRUE), frame, Val(<<"a">>)) :
          frame \in {None, Absent, Raise}}
  \cup {Notes(Val(TRUE), Val(TRUE), Val(TRUE), tx) : tx \in TextAttrs}

\* two slides, every notes slide on the first
NotesPrs ==
  {Prs(<<Slide(<<TextA>>, n), Slide(<<TextB>>, NoNotes)>>, Val(9), Val(7)) :
     n \in NotesSet}

\* no slide, every slide size
MetaPrs == {Prs(<<>>, w, h) : w \in GeomAttrs, h \in GeomAttrs}

\* the end-to-end scenario of the specification
ScenarioPrs ==
  Prs(<<Slide(<<Shape(Val(TRUE), Val(HelloWorld),
                      Val(0), Val(0), Val(100), Val(50))>>, NoNotes),
        Slide(<<>>, NoNotes)>>, Val(9), Val(7))

Presentations ==
  StructPrs \cup TextPrs \cup GeomPrs \cup NotesPrs \cup MetaPrs
    \cup {InvalidPrs, ScenarioPrs}

\* the destination: its parent directory and the file itself
NoFile == [present |-> FALSE, bytes |-> <<>>]
File(bytes) == [present |-> TRUE, bytes |-> bytes]
OldBytes == <<"o", "l", "d">>

FileSystems ==
  {[dir |-> FALSE, file |-> NoFile], [dir |-> TRUE, file |-> NoFile],
   [dir |-> TRUE, file |-> File(OldBytes)]}

\* a write that fails part-way leaves a proper prefix of the data; these are
\* the lengths of the prefixes the model follows
TruncPoints(data) == {0, Len(data) \div 2, Len(data) - 1}

\* ------------------------------------------------------------------- state
VARIABLES
  prs,          \* the input presentation (--input)
  fs,           \* the destination (--output): parent directory and file
  pc,           \* where main() is
  run,          \* the number of the current invocation
  pos,          \* slides the loop of line 33 has taken from prs.slides
  idx,          \* line 33
  sh,           \* shapes the loop of line 36 has taken from slide.shapes
  text_blocks,  \* line 34
  text_shapes,  \* line 35
  slides,       \* line 32
  payload,      \* line 64
  exit_status,  \* -1 while running
  file0,        \* the destination file when the current invocation started
  outs          \* the destination's content after each successful invocation

vars == <<prs, fs, pc, run, pos, idx, sh, text_blocks, text_shapes, slides,
          payload, exit_status, file0, outs>>

NoPayload == [raised |-> TRUE]

Init ==
  /\ prs \in Presentations
  /\ fs \in FileSystems
  /\ pc = "start"
  /\ run = 1
  /\ pos = 0
  /\ idx = 0
  /\ sh = 0
  /\ text_blocks = <<>>
  /\ text_shapes = <<>>
  /\ slides = <<>>
  /\ payload = NoPayload
  /\ exit_status = -1
  /\ file0 = fs.file
  /\ outs = <<>>

\* an uncaught exception: the interpreter prints the traceback and exits 1
Fail ==
  /\ pc' = "failed"
  /\ exit_status' = 1

\* the destination opened for writing before the input is read
LoadMut ==
  /\ pc = "start"
  /\ fs' = [fs EXCEPT !.file = IF fs.dir THEN File(<<>>) ELSE @]
  /\ IF prs.valid
       THEN /\ pc' = "slides"
            /\ slides' = <<>>
            /\ UNCHANGED exit_status
       ELSE /\ Fail
            /\ UNCHANGED slides
  /\ UNCHANGED <<prs, run, pos, idx, sh, text_blocks, text_shapes,
                 payload, file0, outs>>

\* line 30: prs = Presentation(str(source)); line 32: slides = []
Load ==
  /\ pc = "start"
  /\ IF prs.valid
       THEN /\ pc' = "slides"
            /\ slides' = <<>>
            /\ UNCHANGED exit_status
       ELSE /\ Fail
            /\ UNCHANGED slides
  /\ UNCHANGED <<prs, fs, run, pos, idx, sh, text_blocks, text_shapes,
                 payload, file0, outs>>

\* lines 33-35: the next slide of the enumeration, and the two empty lists
NextSlide ==
  /\ pc = "slides"
  /\ pos < Len(prs.slides)
  /\ IF prs.slides[pos + 1].broken
       THEN /\ Fail
            /\ UNCHANGED <<pos, idx, sh, text_blocks, text_shapes>>
       ELSE /\ pos' = pos + 1
            /\ idx' = EnumStart + pos
            /\ text_blocks' = <<>>
            /\ text_shapes' = <<>>
            /\ sh' = 0
            /\ pc' = "shapes"
            /\ UNCHANGED exit_status
  /\ UNCHANGED <<prs, fs, run, slides, payload, file0, outs>>

\* lines 36-50: one turn of the shape loop
ProcessShape ==
  /\ pc = "shapes"
  /\ sh < Len(prs.slides[pos].shapes)
  /\ LET shape == prs.slides[pos].shapes[sh + 1] IN
     IF shape.broken
       THEN /\ Fail
            /\ UNCHANGED <<sh, text_blocks, text_shapes>>
       ELSE LET r == ShapeStep(shape, text_blocks, text_shapes) IN
            /\ text_blocks' = r.text_blocks
            /\ text_shapes' = r.text_shapes
            /\ IF r.raised
                 THEN Fail /\ UNCHANGED sh
                 ELSE sh' = sh + 1 /\ UNCHANGED <<pc, exit_status>>
  /\ UNCHANGED <<prs, fs, run, pos, idx, slides, payload, file0, outs>>

\* lines 52-62: the notes of the slide, and its record appended to slides
FinishSlide ==
  /\ pc = "shapes"
  /\ sh = Len(prs.slides[pos].shapes)
  /\ LET notes_text == ReadNotes(prs.slides[pos]) IN
     IF notes_text.raised
       THEN Fail /\ UNCHANGED slides
       ELSE /\ slides' = Append(slides,
                           SlideRecord(idx, text_blocks,
                                       NotesLines(notes_text.v), text_shapes))
            /\ pc' = "slides"
            /\ UNCHANGED exit_status
  /\ UNCHANGED <<prs, fs, run, pos, idx, sh, text_blocks, text_shapes,
                 payload, file0, outs>>

\* lines 64-69, once the slide loop is exhausted
MakePayload ==
  /\ pc = "slides"
  /\ pos = Len(prs.slides)
  /\ LET p == BuildPayload(prs, slides) IN
     IF p.raised
       THEN Fail /\ UNCHANGED payload
       ELSE /\ payload' = p
            /\ pc' = "mkdir"
            /\ UNCHANGED exit_status
  /\ UNCHANGED <<prs, fs, run, pos, idx, sh, text_blocks, text_shapes,
                 slides, file0, outs>>

\* line 71: output.parent.mkdir(parents=True, exist_ok=True); creating a
\* missing directory can be refused by the file system
Mkdir ==
  /\ pc = "mkdir"
  /\ \/ /\ fs' = [fs EXCEPT !.dir = TRUE]
        /\ pc' = "write"
        /\ UNCHANGED exit_status
     \/ /\ ~fs.dir
        /\ Fail
        /\ UNCHANGED fs
  /\ UNCHANGED <<prs, run, pos, idx, sh, text_blocks, text_shapes, slides,
                 payload, file0, outs>>

\* the file opened in append mode
WriteBytesMut(old, data) == File(old.bytes \o data)

\* Path.write_text: open(path, "w") truncates or creates the file, then the
\* data is written and the file closed
WriteBytes(old, data) == File(data)

\* line 72: output.write_text(json.dumps(...)).  The open can be refused (the
\* file is left as it was), and the write can fail part-way.
WriteText ==
  /\ pc = "write"
  /\ LET data == Dumps(payload.v) IN
     \/ /\ fs' = [fs EXCEPT !.file = WriteBytes(fs.file, data)]
        /\ outs' = Append(outs, WriteBytes(fs.file, data).bytes)
        /\ pc' = "done"
        /\ exit_status' = 0
     \/ /\ Fail
        /\ UNCHANGED <<fs, outs>>
     \/ /\ \E n \in TruncPoints(data) :
             fs' = [fs EXCEPT !.file = File(SubSeq(data, 1, n))]
        /\ Fail
        /\ UNCHANGED outs
  /\ UNCHANGED <<prs, run, pos, idx, sh, text_blocks, text_shapes, slides,
                 payload, file0>>

\* the tool is invoked again with the same --input and --output
Rerun ==
  /\ pc = "done"
  /\ run < MaxRuns
  /\ run' = run + 1
  /\ pc' = "start"
  /\ pos' = 0
  /\ idx' = 0
  /\ sh' = 0
  /\ text_blocks' = <<>>
  /\ text_shapes' = <<>>
  /\ slides' = <<>>
  /\ payload' = NoPayload
  /\ exit_status' = -1
  /\ file0' = fs.file
  /\ UNCHANGED <<prs, fs, outs>>

Next ==
  \/ Load
  \/ NextSlide
  \/ ProcessShape
  \/ FinishSlide
  \/ MakePayload
  \/ Mkdir
  \/ WriteText
  \/ Rerun

Spec == Init /\ [][Next]_vars

\* ------------------------------------------------------------- properties
\* What the claims call things, stated on the input without the program's
\* own operators.

\* the shape has a text frame and its text holds a non-whitespace character
HasVisibleText(shape) ==
  /\ ~shape.broken
  /\ shape.has_text_frame = Val(TRUE)
  /\ shape.text.k = "val"
  /\ \E i \in 1..Len(shape.text.v) : shape.text.v[i] \notin Whitespace

Visible(shapes) == SelectSeq(shapes, HasVisibleText)

GeomKeys == {"left", "top", "width", "height"}

GeomRaises(shape) == \E key \in GeomKeys : shape[key].k = "raise"

IsNonWs(c) == c \notin Whitespace

NonWs(s) == SelectSeq(s, IsNonWs)

\* non-empty, with no whitespace at either end
Trimmed(s) == s # <<>> /\ s[1] \notin Whitespace /\ s[Len(s)] \notin Whitespace

Chars(s) == {s[i] : i \in 1..Len(s)}

\* the shapes of the slide main() is in
CurShapes == prs.slides[pos].shapes

\* text_blocks and text_shapes go entry by entry
Aligned(tb, ts) ==
  /\ Len(tb) = Len(ts)
  /\ \A i \in 1..Len(tb) : ts[i].text = tb[i]

\* tb lists the shapes with visible text, in the order of shapes
InOrder(tb, shapes) ==
  LET C == Visible(shapes) IN
  /\ Len(tb) = Len(C)
  /\ \A i \in 1..Len(C) : NonWs(tb[i]) = NonWs(C[i].text.v)

ScenarioPayload ==
  [slideCount |-> 2, slideWidth |-> 9, slideHeight |-> 7,
   slides |-> <<
     [page |-> 1,
      textBlocks |-> << <<"H", "e", "l", "l", "o", SP, "W", "o", "r", "l", "d">> >>,
      notes |-> <<>>,
      textShapes |-> <<
        [text |-> <<"H", "e", "l", "l", "o", SP, "W", "o", "r", "l", "d">>,
         left |-> 0, top |-> 0, width |-> 100, height |-> 50] >>],
     [page |-> 2, textBlocks |-> <<>>, notes |-> <<>>, textShapes |-> <<>>] >>]

\* C1: on a successful run the output has one record per slide of the input,
\* the i-th with page i, and a slide without any text-bearing shape is there
\* too, with empty textBlocks and textShapes; the specification's two-slide
\* scenario gives the payload the specification shows.
C1_PagesInOrder ==
  /\ \A i \in 1..Len(slides) : slides[i].page = i
  /\ pc = "done" =>
       /\ payload.v.slideCount = Len(prs.slides)
       /\ Len(payload.v.slides) = Len(prs.slides)
       /\ \A i \in 1..Len(prs.slides) :
            /\ payload.v.slides[i].page = i
            /\ Visible(prs.slides[i].shapes) = <<>> =>
                 /\ payload.v.slides[i].textBlocks = <<>>
                 /\ payload.v.slides[i].textShapes = <<>>
       /\ prs = ScenarioPrs => payload.v = ScenarioPayload

C1_Witness == pc = "done" /\ prs = ScenarioPrs /\ Len(payload.v.slides) = 2

\* C2: at every turn of the shape loop and in every slide record, textBlocks
\* and textShapes have the same length, textShapes[i].text is textBlocks[i],
\* and the entries are the text-bearing shapes in traversal order.
C2_Aligned ==
  /\ pc = "shapes" =>
       /\ Aligned(text_blocks, text_shapes)
       /\ InOrder(text_blocks, SubSeq(CurShapes, 1, sh))
  /\ \A i \in 1..Len(slides) :
       /\ Aligned(slides[i].textBlocks, slides[i].textShapes)
       /\ InOrder(slides[i].textBlocks, prs.slides[i].shapes)

C2_Witness ==
  /\ pc = "slides"
  /\ Len(slides) = 1
  /\ Len(slides[1].textBlocks) = 2
  /\ slides[1].textBlocks[1] # slides[1].textBlocks[2]
  /\ Len(prs.slides[1].shapes) = 2

\* C3: a turn of the shape loop leaves both lists as they are when the shape
\* has no text frame or no text left after trimming, and appends exactly one
\* entry to each when it has (and no read of the shape fails).
C3_Contributes ==
  [][(pc = "shapes" /\ sh < Len(CurShapes)) =>
       LET shape == CurShapes[sh + 1] IN
       /\ ~HasVisibleText(shape) =>
            text_blocks' = text_blocks /\ text_shapes' = text_shapes
       /\ (HasVisibleText(shape) /\ pc' = "shapes") =>
            /\ Len(text_blocks') = Len(text_blocks) + 1
            /\ Len(text_shapes') = Len(text_shapes) + 1
            /\ SubSeq(text_blocks', 1, Len(text_blocks)) = text_blocks
            /\ SubSeq(text_shapes', 1, Len(text_shapes)) = text_shapes]_vars

C3_Witness ==
  /\ pc = "shapes"
  /\ sh = 2
  /\ CurShapes[1] = Blank
  /\ CurShapes[2] = TextA
  /\ Len(text_blocks) = 1
  /\ Len(text_shapes) = 1

\* the notes of the slide cannot be read: no notes slide, no notes text
\* frame, no text, or an access that fails
NotesUnavailable(n) ==
  \/ n.has_notes_slide # Val(TRUE)
  \/ n.notes_slide.k # "val"
  \/ n.notes_text_frame.k # "val"
  \/ n.text.k # "val"
  \/ n.text.v = <<>>

\* C4: the step that reads the notes never fails: it appends the slide's
\* record with the two lists as the shape loop left them, with notes = []
\* when the notes cannot be read, and goes on to the next slide.
C4_NotesNeverAbort ==
  [][(pc = "shapes" /\ sh = Len(CurShapes)) =>
       /\ pc' = "slides"
       /\ exit_status' = exit_status
       /\ pos' = pos
       /\ Len(slides') = Len(slides) + 1
       /\ SubSeq(slides', 1, Len(slides)) = slides
       /\ slides'[Len(slides')].textBlocks = text_blocks
       /\ slides'[Len(slides')].textShapes = text_shapes
       /\ NotesUnavailable(prs.slides[pos].notes) =>
            slides'[Len(slides')].notes = <<>>]_vars

C4_Witness ==
  /\ pc = "done"
  /\ Len(slides) = 2
  /\ prs.slides[1].notes.has_notes_slide = Val(TRUE)
  /\ prs.slides[1].notes.notes_text_frame.k = "raise"
  /\ slides[1].notes = <<>>
  /\ slides[1].textBlocks # <<>>
  /\ slides[2].textBlocks # <<>>

\* the run failed inside write_text: the payload was built and the
\* directory is there
FailedInWrite == pc = "failed" /\ ~payload.raised /\ fs.dir

IsProperPrefix(a, b) == Len(a) < Len(b) /\ a = SubSeq(b, 1, Len(a))

\* C5 as stated: after every failing run the destination is as it was before
\* the run; it changes only once all slides are processed; a successful run
\* leaves the JSON document there.
C5_Original ==
  /\ pc = "failed" => fs.file = file0
  /\ fs.file # file0 =>
       pos = Len(prs.slides) /\ Len(slides) = Len(prs.slides)
  /\ pc = "done" => fs.file = File(Dumps(payload.v))

\* C5 as amended: after a run that fails before write_text writes (loading,
\* any slide, the payload, the directory, opening the destination) the
\* destination is as it was before the run; a write that fails part-way
\* leaves a proper prefix of the JSON document; the destination changes only
\* once all slides are processed; a successful run leaves the JSON document.
C5_Amended ==
  /\ (pc = "failed" /\ ~FailedInWrite) => fs.file = file0
  /\ FailedInWrite =>
       \/ fs.file = file0
       \/ fs.file.present /\ IsProperPrefix(fs.file.bytes, Dumps(payload.v))
  /\ fs.file # file0 =>
       /\ pc \in {"done", "failed"}
       /\ pos = Len(prs.slides)
       /\ Len(slides) = Len(prs.slides)
  /\ pc = "done" => fs.file = File(Dumps(payload.v))

C5_Witness ==
  /\ FailedInWrite
  /\ file0 = File(OldBytes)
  /\ fs.file # file0
  /\ Len(slides) = 2

\* an access outside read_notes that raises is the next thing main() does
RaisesHere ==
  \/ pc = "start" /\ ~prs.valid
  \/ pc = "slides" /\ pos < Len(prs.slides) /\ prs.slides[pos + 1].broken
  \/ /\ pc = "slides"
     /\ pos = Len(prs.slides)
     /\ "raise" \in {prs.slide_width.k, prs.slide_height.k}
  \/ /\ pc = "shapes"
     /\ sh < Len(CurShapes)
     /\ LET shape == CurShapes[sh + 1] IN
        \/ shape.broken
        \/ shape.has_text_frame.k = "raise"
        \/ /\ shape.has_text_frame = Val(TRUE)
           /\ \/ shape.text.k \in {"raise", "absent"}
              \/ HasVisibleText(shape) /\ GeomRaises(shape)

\* C6: a failure outside the notes extraction ends the run with exit status
\* 1 and the destination unchanged; every failing step gives exit status 1;
\* only write_text can leave anything behind; a failed run takes no further
\* step.
C6_NoOtherSwallow ==
  [][/\ pc # "failed"
     /\ RaisesHere =>
          /\ pc' = "failed"
          /\ exit_status' = 1
          /\ fs' = fs
          /\ outs' = outs
     /\ pc' = "failed" =>
          /\ exit_status' = 1
          /\ run' = run
          /\ outs' = outs
          /\ pc # "write" => fs'.file = fs.file]_vars

C6_Witness ==
  /\ pc = "failed"
  /\ exit_status = 1
  /\ pos = 2
  /\ Len(slides) = 1
  /\ slides[1].textBlocks # <<>>
  /\ CurShapes[sh + 1] = BadGeom
  /\ fs.file = file0

\* the first non-whitespace characters of the lines of t
Starts(t) ==
  {i \in 1..Len(t) :
     /\ t[i] \notin Whitespace
     /\ \A j \in 1..(i - 1) :
          (\A m \in j..(i - 1) : t[m] \notin LineBreaks) => t[j] \in Whitespace}

\* the last non-whitespace character of the line that holds position i
EndOf(t, i) ==
  CHOOSE p \in i..Len(t) :
    /\ t[p] \notin Whitespace
    /\ \A m \in i..p : t[m] \notin LineBreaks
    /\ \A q \in (p + 1)..Len(t) :
         t[q] \in Whitespace \/ \E m \in i..q : t[m] \in LineBreaks

\* L is the lines of t, each trimmed, the blank ones left out, in order
IsLinesOf(L, t) ==
  /\ Len(L) = Cardinality(Starts(t))
  /\ \A i \in Starts(t) :
       L[Cardinality({j \in Starts(t) : j <= i})] = SubSeq(t, i, EndOf(t, i))

\* C7: the notes of a slide record are the lines of the notes text, trimmed,
\* without the blank ones, in order: every entry is non-empty, has no
\* whitespace at either end and no line break, and "A\n\nB\n  \n" gives
\* ["A", "B"].
C7_NotesLines ==
  \A i \in 1..Len(slides) :
    LET n == prs.slides[i].notes
        L == slides[i].notes
    IN /\ \A j \in 1..Len(L) : Trimmed(L[j]) /\ Chars(L[j]) \cap LineBreaks = {}
       /\ ~NotesUnavailable(n) => IsLinesOf(L, n.text.v)
       /\ (~NotesUnavailable(n) /\ n.text.v = ABNotes) => L = << <<"A">>, <<"B">> >>

C7_Witness ==
  /\ pc = "done"
  /\ Len(slides) = 2
  /\ ~NotesUnavailable(prs.slides[1].notes)
  /\ prs.slides[1].notes.text.v = ABNotes
  /\ slides[1].notes = << <<"A">>, <<"B">> >>

\* the value the claim gives a geometry attribute
Expected(a) == IF a.k = "val" /\ a.v # 0 THEN a.v ELSE 0

\* C8: a shape with visible text whose geometry reads do not fail gets a
\* textShapes entry with the keys text, left, top, width and height, each
\* geometry key an integer: the attribute's value when it is there and not
\* zero, and 0 when it is absent, None or zero.
C8_Geometry ==
  [][(/\ pc = "shapes"
      /\ sh < Len(CurShapes)
      /\ HasVisibleText(CurShapes[sh + 1])
      /\ ~GeomRaises(CurShapes[sh + 1])) =>
       /\ pc' = "shapes"
       /\ Len(text_shapes') = Len(text_shapes) + 1
       /\ LET e == text_shapes'[Len(text_shapes')] IN
          /\ DOMAIN e = GeomKeys \cup {"text"}
          /\ \A key \in GeomKeys :
               e[key] \in Int /\ e[key] = Expected(CurShapes[sh + 1][key])]_vars

C8_Witness ==
  /\ pc = "done"
  /\ Len(prs.slides) = 1
  /\ Len(prs.slides[1].shapes) = 1
  /\ prs.slides[1].shapes[1].left = Absent
  /\ prs.slides[1].shapes[1].top = None
  /\ prs.slides[1].shapes[1].width = Val(0)
  /\ prs.slides[1].shapes[1].height = Val(7)
  /\ Len(slides[1].textShapes) = 1
  /\ slides[1].textShapes[1].left = 0
  /\ slides[1].textShapes[1].height = 7

\* every text block the program holds
Blocks ==
  {text_blocks[i] : i \in 1..Len(text_blocks)}
    \cup UNION {{slides[i].textBlocks[j] : j \in 1..Len(slides[i].textBlocks)} :
                  i \in 1..Len(slides)}

\* C9: normalizing a text block again gives the same block; a block is
\* non-empty, has no newline and no whitespace at either end; a text without
\* newline and without whitespace at its ends is its own block, and
\* "Line1\nLine2" gives "Line1 Line2".
C9_Normalized ==
  /\ \A b \in Blocks :
       Normalize(b) = b /\ Trimmed(b) /\ LF \notin Chars(b)
  /\ \A i \in 1..Len(slides) :
       LET C == Visible(prs.slides[i].shapes) IN
       \A j \in 1..Len(C) :
         LET t == C[j].text.v IN
         /\ (Trimmed(t) /\ LF \notin Chars(t)) => slides[i].textBlocks[j] = t
         /\ t = Line1Line2 =>
              slides[i].textBlocks[j] =
                <<"L", "i", "n", "e", "1", SP, "L", "i", "n", "e", "2">>

C9_Witness ==
  /\ pc = "done"
  /\ Len(slides) = 1
  /\ Len(prs.slides[1].shapes) = 1
  /\ HasVisibleText(prs.slides[1].shapes[1])
  /\ prs.slides[1].shapes[1].text.v = Line1Line2
  /\ slides[1].textBlocks =
       << <<"L", "i", "n", "e", "1", SP, "L", "i", "n", "e", "2">> >>

\* C10: every successful invocation on the same input and destination leaves
\* the same bytes at the destination, whatever was there before.
C10_Deterministic ==
  /\ \A i, j \in 1..Len(outs) : outs[i] = outs[j]
  /\ pc = "done" => fs.file = File(outs[1])

C10_Witness ==
  /\ pc = "done"
  /\ run = 2
  /\ Len(outs) = 2
  /\ file0 = File(outs[1])
  /\ Len(slides) = 2
  /\ slides[1].textBlocks # <<>>

====
